---- MODULE Spec2Model ----
(***************************************************************************)
(* Model of the ReactVega component of graphic-walker                      *)
(* (packages/graphic-walker/src/vis/react-vega.tsx): the grid planner      *)
(* (memoised repeat fields and view placeholders), the embed effect with   *)
(* its single-view and multi-view branches, the readiness subject ready$,  *)
(* the renderer handle list vegaRefs, and the throttled parameter-store    *)
(* bus that relays brush/point selections between sibling views.           *)
(*                                                                         *)
(* One React task (render, commit, effects, and the synchronous re-render  *)
(* caused by setViewPlaceholders) is split in two steps, "Render" and      *)
(* "Rerender"; while phase = "rerender" no other step is enabled, so the   *)
(* two steps behave as one task.  Promise continuations queued during the  *)
(* task (Promise.all of an empty list) run when the task ends.             *)
(***************************************************************************)
EXTENDS Integers, Sequences, FiniteSets, TLC

\* ---------------------------------------------------------------- bounds
MaxChanges == 1
MaxInflight == 4
MaxPushes == 2
MaxSelects == 2
MaxClicks == 2

\* ------------------------------------------------------- program constants
BRUSH_SIGNAL_NAME == "__gw_brush__"
POINT_SIGNAL_NAME == "__gw_point__"

\* ------------------------------------------------------------- the inputs
\* Field descriptors: two dimensions and two measures.
analyticType(f) == IF f \in {"d1", "d2"} THEN "dimension" ELSE "measure"

\* The channel assignments an axis (rows or columns) is drawn from.
Axes == { <<>>, <<"d1", "d2">>, <<"d1", "m1", "m2">> }

\* The selection stores a compiled view can expose (res.vgSpec.data names
\* filtered to the two known store names).
ParamStoreChoices == { {}, {BRUSH_SIGNAL_NAME}, {POINT_SIGNAL_NAME},
                       {BRUSH_SIGNAL_NAME, POINT_SIGNAL_NAME} }

VARIABLES
    phase,              \* "unmounted", "rerender" (state update pending), "idle"
    changes,            \* number of renders caused by new props since mount
    rows, columns,      \* props
    rowRepeatFields,    \* useMemo cache
    colRepeatFields,    \* useMemo cache
    viewPlaceholders,   \* number of placeholder refs in the state
    paramStores,        \* the selection stores the compiled views expose
    vegaRefs,           \* vegaRefs.current: sequence of views
    cycles,             \* one record per run of the embed effect
    pendingEmbeds,      \* embed() promises in flight: [cycle, idx]
    embedDone,          \* views whose embed().then callback has run
    embedRejected,      \* views whose embed() promise was rejected
    geomListeners,      \* views with the click and SELECTION_NAME listeners
    microtasks,         \* cycles whose Promise.all continuation is queued
    readyLog,           \* the values emitted on ready$ by the latest step
                        \* that emitted any, in order
    readyWaiters,       \* pending ready() promises (equal ones are one)
    subscriptions,      \* active bus subscriptions, each with the latest
                        \* value held by its own throttleTime operator
                        \* (an index of pushLog, 0: none)
    noBroadcasting,     \* the signal loops whose noBroadcasting flag is set
    storeData,          \* view.getState().data[store], per view and store
    pendingSignals,     \* signal listener calls a setState has scheduled
    pushLog,            \* the entries pushed on combinedParamStore$, in order
    superseded,         \* entries replaced in a throttle before its flush
    stateWrites,        \* the setState calls made by subscribe callbacks
    gestures,           \* number of user selection gestures so far
    clicks,             \* number of events emitted on click$ so far
    latestClick,        \* the click withLatestFrom holds for the geomClick$
                        \* subscription (0: none yet)
    selectionLog,       \* the values emitted on selection$, each with the
                        \* click that caused it
    geomClicks,         \* the calls of onGeomClick: [values, e]
    signalCalls,        \* the calls of the signal listeners: which loop, by
                        \* a user gesture or by a setState, swallowed or not
    store,              \* version of the store values the Renderer's data
                        \* effect depends on (dataSource, viewFilters, ...)
    queries,            \* the query pipelines in flight, by the version of
                        \* the store values they were started with
    settledQueries,     \* the pipelines that ended: [version, ok]
    waiting,            \* Renderer state: waiting
    viewData,           \* Renderer state: the version viewData was queried
                        \* from (-1: the initial [])
    encodings,          \* Renderer state: version of the encodings
    viewConfig          \* Renderer state: version of the visual config

propVars == << phase, changes, rows, columns, rowRepeatFields,
               colRepeatFields, viewPlaceholders, paramStores >>
embedVars == << pendingEmbeds, embedDone, embedRejected, geomListeners >>
readyVars == << readyLog, readyWaiters >>
clickVars == << clicks, latestClick, selectionLog, geomClicks >>
rendererVars == << store, queries, settledQueries, waiting, viewData,
                   encodings, viewConfig >>
busVars == << noBroadcasting, storeData, pendingSignals, pushLog, superseded,
              stateWrites, signalCalls, gestures >>

vars == << phase, changes, rows, columns, rowRepeatFields, colRepeatFields,
           viewPlaceholders, paramStores, vegaRefs, cycles, pendingEmbeds,
           embedDone, embedRejected, geomListeners, microtasks, readyLog, readyWaiters, subscriptions, noBroadcasting, storeData,
           pendingSignals, pushLog, superseded, stateWrites, signalCalls, gestures,
           clicks, latestClick, selectionLog, geomClicks,
           store, queries, settledQueries, waiting, viewData, encodings,
           viewConfig >>

\* ------------------------------------------------------------ grid planner
Max(a, b) == IF a >= b THEN a ELSE b

IsDimension(f) == analyticType(f) = "dimension"
IsMeasure(f) == analyticType(f) = "measure"

\* rows.filter(f => f.analyticType === 'dimension')
Dims(axis) == SelectSeq(axis, IsDimension)
\* rows.filter(f => f.analyticType === 'measure')
Meas(axis) == SelectSeq(axis, IsMeasure)

\* Array.prototype.slice(-1)
SliceLast(s) == IF Len(s) = 0 THEN <<>> ELSE << s[Len(s)] >>

\* rowMeas.length === 0 ? rowDims.slice(-1) : rowMeas
RepeatFields(axis) ==
    IF Len(Meas(axis)) = 0 THEN SliceLast(Dims(axis)) ELSE Meas(axis)

\* Whether a dependency of the rowRepeatFields memo changed in a render:
\* its dependencies are [rowDims, rowMeas], which change with rows.
RowRepeatDepsChanged(rowsChanged, colsChanged) == rowsChanged

\* Whether a dependency of the colRepeatFields memo changed in a render:
\* its dependency list is [rowDims, rowMeas] as well.
ColRepeatDepsChanged(rowsChanged, colsChanged) == rowsChanged

\* Math.max(1, rowRepeatFields.length * colRepeatFields.length)
ViewNum(rrf, crf) == Max(1, Len(rrf) * Len(crf))

\* The grid geometry handed to CanvaContainer.
rowSize == Max(Len(rowRepeatFields), 1)
colSize == Max(Len(colRepeatFields), 1)

\* ------------------------------------------------------------ embed effect
\* The branch test of the embed effect.
IsMultiView(rrf, crf) == ~(Len(rrf) <= 1 /\ Len(crf) <= 1)

\* The cells for which the effect issues an embed, given the placeholders
\* of the render it runs in (a cell without a mounted node is skipped).
IssuedCells(rrf, crf, vp) ==
    IF IsMultiView(rrf, crf)
    THEN { i * Len(crf) + j : i \in 0 .. Len(rrf) - 1, j \in 0 .. Len(crf) - 1 }
             \cap (0 .. vp - 1)
    ELSE IF vp > 0 THEN {0} ELSE {}

\* The iterations (i, j) of the cell loop: getSingleView is called for each.
LoopCells(rrf, crf) == (0 .. Len(rrf) - 1) \X (0 .. Len(crf) - 1)

\* const hasLegend = i === 0 && j === colRepeatFields.length - 1
hasLegend(i, j, crf) == i = 0 /\ j = Len(crf) - 1

\* hideLegend: !hasLegend
hideLegend(i, j, crf) == ~hasLegend(i, j, crf)

NewCycle(rrf, crf, vp) ==
    [ multi  |-> IsMultiView(rrf, crf),
      issued |-> IssuedCells(rrf, crf, vp) ]

cur == Len(cycles)

View(c, k) == [cycle |-> c, idx |-> k]

\* One iteration of the paramStores loop of a view: a signal listener with
\* its noBroadcasting flag and its bus subscription.
Loop(c, k, param) == [cycle |-> c, idx |-> k, param |-> param]

\* Promise.race in the place of Promise.all: fulfilled with the first.
PromiseRace(issued, done) == issued \cap done # {}

\* Promise.all(viewPromises): fulfilled once every promise in the list is.
PromiseAll(issued, done) == issued \subseteq done

DoneOf(c, done) == { v.idx : v \in { w \in done : w.cycle = c } }

\* Every view of the current grid plan has completed its embed.
PlanEmbedded(cs, done, rrf, crf) ==
    DoneOf(Len(cs), done) = 0 .. ViewNum(rrf, crf) - 1

\* ready$.current.next(value), emitted by cycle c (0: the facade).
\* The log entry records what was true at the moment of emission.
ReadyEntry(value, c, cs, pend, done, rrf, crf) ==
    [ value      |-> value,
      cycle      |-> c,
      ownPending |-> Cardinality({ p \in pend : p.cycle = c }),
      current    |-> Len(cs),
      planDone   |-> PlanEmbedded(cs, done, rrf, crf) ]

\* The queued Promise.all continuations run in order, each emitting true.
EmitReadyAll(tasks, cs, pend, done, rrf, crf) ==
    [ t \in DOMAIN tasks |->
        ReadyEntry(TRUE, tasks[t], cs, pend, done, rrf, crf) ]

\* The cleanup returned by the previous run of the effect (cycle c):
\* subscriptions.forEach(sub => sub.unsubscribe())
Cleanup(c) ==
    [ s \in { t \in DOMAIN subscriptions : t.cycle # c } |-> subscriptions[s] ]

\* The run of the embed effect in a render with repeat fields rrf, crf and
\* vp placeholders.  endOfTask: no state update is pending, so the queued
\* promise continuations run right after it.
EmbedEffect(rrf, crf, vp, endOfTask) ==
    LET c     == Len(cycles) + 1
        cyc   == NewCycle(rrf, crf, vp)
        cs    == Append(cycles, cyc)
        pend  == pendingEmbeds \cup { View(c, k) : k \in cyc.issued }
        tasks == IF cyc.multi /\ cyc.issued = {}
                 THEN Append(microtasks, c) ELSE microtasks
    IN  /\ subscriptions' = Cleanup(Len(cycles))
        /\ vegaRefs' = <<>>
        /\ cycles' = cs
        /\ pendingEmbeds' = pend
        /\ UNCHANGED << embedDone, embedRejected, geomListeners, busVars,
                        clickVars >>
        /\ IF endOfTask
           THEN /\ microtasks' = <<>>
                /\ readyLog' = IF tasks = <<>> THEN readyLog
                               ELSE EmitReadyAll(tasks, cs, pend, embedDone,
                                                 rrf, crf)
                /\ readyWaiters' = IF tasks = <<>> THEN readyWaiters ELSE {}
           ELSE /\ microtasks' = tasks
                /\ UNCHANGED << readyLog, readyWaiters >>

\* A render caused by new props, followed by the effects whose dependencies
\* changed: the placeholder effect and the embed effect.
Render(newRows, newCols, rowsChanged, colsChanged) ==
    LET rrf == IF RowRepeatDepsChanged(rowsChanged, colsChanged)
               THEN RepeatFields(newRows) ELSE rowRepeatFields
        crf == IF ColRepeatDepsChanged(rowsChanged, colsChanged)
               THEN RepeatFields(newCols) ELSE colRepeatFields
        placeholderEffect ==
               \/ RowRepeatDepsChanged(rowsChanged, colsChanged)
               \/ ColRepeatDepsChanged(rowsChanged, colsChanged)
    IN  /\ Cardinality(pendingEmbeds)
             + Cardinality(IssuedCells(rrf, crf, viewPlaceholders))
             + ( IF placeholderEffect
                 THEN Cardinality(IssuedCells(rrf, crf, ViewNum(rrf, crf)))
                 ELSE 0 ) <= MaxInflight
        /\ rows' = newRows
        /\ columns' = newCols
        /\ rowRepeatFields' = rrf
        /\ colRepeatFields' = crf
        /\ UNCHANGED viewPlaceholders
        /\ phase' = IF placeholderEffect THEN "rerender" ELSE "idle"
        /\ EmbedEffect(rrf, crf, viewPlaceholders, ~placeholderEffect)

Mount(r, c) ==
    /\ phase = "unmounted"
    /\ Render(r, c, TRUE, TRUE)
    /\ UNCHANGED << changes, paramStores, rendererVars >>

\* The re-render caused by setViewPlaceholders: the new placeholders are
\* mounted, and the embed effect runs again (viewPlaceholders changed).
Rerender ==
    /\ phase = "rerender"
    /\ phase' = "idle"
    /\ viewPlaceholders' = ViewNum(rowRepeatFields, colRepeatFields)
    /\ EmbedEffect(rowRepeatFields, colRepeatFields,
                   ViewNum(rowRepeatFields, colRepeatFields), TRUE)
    /\ UNCHANGED << rendererVars, changes, rows, columns, rowRepeatFields,
                    colRepeatFields, paramStores >>

\* A change of props is taken while the number of changes fits the bound.
CanChange == phase = "idle" /\ changes < MaxChanges

ChangeRows(r) ==
    /\ CanChange
    /\ changes' = changes + 1
    /\ Render(r, columns, TRUE, FALSE)
    /\ UNCHANGED << paramStores, rendererVars >>

ChangeColumns(c) ==
    /\ CanChange
    /\ changes' = changes + 1
    /\ Render(rows, c, FALSE, TRUE)
    /\ UNCHANGED << paramStores, rendererVars >>

ChangeRowsAndColumns(r, c) ==
    /\ CanChange
    /\ changes' = changes + 1
    /\ Render(r, c, TRUE, TRUE)
    /\ UNCHANGED << paramStores, rendererVars >>

\* Any other dependency of the embed effect changes (dataSource, size, ...).
ChangeOther ==
    /\ CanChange
    /\ changes' = changes + 1
    /\ Render(rows, columns, FALSE, FALSE)
    /\ UNCHANGED << paramStores, rendererVars >>

\* embed(...).then(res => ...) of a cell.  attached: the paramStores
\* iterations that completed (all of them unless addSignalListener threw
\* into the first catch); listening: the click and SELECTION_NAME listeners
\* were added (unless that threw into the second catch).
ThenCallback(v, attached, listening) ==
    /\ phase = "idle"
    /\ v \in pendingEmbeds
    /\ LET cyc  == cycles[v.cycle]
           pend == pendingEmbeds \ {v}
           done == embedDone \cup {v}
           newLoops == IF cyc.multi
                       THEN { Loop(v.cycle, v.idx, p) : p \in attached }
                       ELSE {}
           fire == IF cyc.multi
                   THEN /\ PromiseAll(cyc.issued, DoneOf(v.cycle, done))
                        /\ ~PromiseAll(cyc.issued, DoneOf(v.cycle, embedDone))
                   ELSE TRUE
       IN  /\ pendingEmbeds' = pend
           /\ embedDone' = done
           /\ geomListeners' = IF listening THEN geomListeners \cup {v}
                                ELSE geomListeners
           /\ vegaRefs' = IF cyc.multi THEN Append(vegaRefs, v) ELSE vegaRefs
           /\ subscriptions' =
                 [ l \in DOMAIN subscriptions \cup newLoops |->
                     IF l \in DOMAIN subscriptions THEN subscriptions[l]
                     ELSE 0 ]
           /\ storeData' =
                 [ l \in DOMAIN storeData \cup newLoops |->
                     IF l \in DOMAIN storeData THEN storeData[l] ELSE "empty" ]
           /\ pendingSignals' =
                 [ l \in DOMAIN pendingSignals \cup newLoops |->
                     IF l \in DOMAIN pendingSignals THEN pendingSignals[l]
                     ELSE 0 ]
           /\ IF fire
              THEN /\ readyLog' = << ReadyEntry(TRUE, v.cycle, cycles, pend,
                                     done, rowRepeatFields, colRepeatFields) >>
                   /\ readyWaiters' = {}
              ELSE UNCHANGED << readyLog, readyWaiters >>
    /\ UNCHANGED << rendererVars, propVars, cycles, microtasks, embedRejected,
                    noBroadcasting, pushLog, superseded, stateWrites,
                    signalCalls, gestures, clickVars >>

\* The embed of a cell resolves and its callback runs to the end.
ResolveEmbed(v) == ThenCallback(v, paramStores, TRUE)

\* The embed of a cell resolves and attaching its listeners throws: in the
\* paramStores loop (some iterations are left out), when the click and
\* SELECTION_NAME listeners are added, or both; the errors are caught.
ResolveEmbedThrowing(v, attached, listening) ==
    /\ attached \subseteq paramStores
    /\ attached # paramStores \/ ~listening
    /\ ThenCallback(v, attached, listening)

\* A rejection that would settle the cell all the same.
RejectionSettles(v, done) == done \cup {v}

\* The effect of a rejected embed on the settled cells: embed(...).then(cb)
\* has no rejection handler, cb never runs.
Rejection(v, done) == done

\* The embed() promise of a cell is rejected.
RejectEmbed(v) ==
    /\ phase = "idle"
    /\ v \in pendingEmbeds
    /\ pendingEmbeds' = pendingEmbeds \ {v}
    /\ embedRejected' = embedRejected \cup {v}
    /\ embedDone' = Rejection(v, embedDone)
    /\ UNCHANGED << rendererVars, propVars, vegaRefs, cycles, geomListeners, microtasks,
                    readyVars, subscriptions, busVars, clickVars >>

\* --------------------------------------------------------- interaction bus
\* The snapshots view.getState() gives of a selection store: absent, the
\* empty list, or a selection.
Data == { "null", "empty", "sel" }

\* !entry.data: an absent payload is falsy, a list (even empty) is not.
Falsy(d) == d = "null"

\* The guard without its source test: if (!entry.data) return;
AppliesToAnySource(entry, sub) == ~Falsy(entry.data)

\* The guard of the subscribe callback:
\* if (entry.source === sourceId || !entry.data) return;
Applies(entry, sub) == ~(entry.source = sub.idx \/ Falsy(entry.data))

SubsOf(c) == { s \in DOMAIN subscriptions : s.cycle = c }

\* One bus shared by the views of all cycles.
SharedBus(s, l) == TRUE

\* combinedParamStore$ and throttledParamStore$ are created by each run of
\* the effect: subscription s is on the bus that the listener of loop l
\* pushes on when both were made by the same run.
SameBus(s, l) == s.cycle = l.cycle

\* A throttle that keeps the first value of its window.
ThrottleKeepsFirst(held, id) == IF held = 0 THEN id ELSE held

\* throttleTime(d, undefined, { leading: false, trailing: true }) taking
\* value id while it holds held (0: nothing): nothing is emitted, the value
\* replaces the held one and is emitted when the timer ends.
Throttle(held, id) == id

\* The signal listener of loop l, the view's stores holding sd, called for
\* a user gesture (genuine) or for a setState: a set flag swallows the
\* call; otherwise the snapshot of the store is pushed on
\* combinedParamStore$, where the throttle of every subscription keeps it
\* as its latest value (leading: false) until its timer ends.
SignalListener(l, sd, genuine) ==
    /\ signalCalls' = signalCalls \cup
           { [ loop      |-> l,
               genuine   |-> genuine,
               swallowed |-> l \in noBroadcasting ] }
    /\ IF l \in noBroadcasting
       THEN /\ noBroadcasting' = noBroadcasting \ {l}
            /\ UNCHANGED << subscriptions, pushLog, superseded >>
       ELSE
         /\ Len(pushLog) < MaxPushes
         /\ pushLog' = Append(pushLog,
                [ signal   |-> l.param,
                  source   |-> l.idx,
                  cycle    |-> l.cycle,
                  data     |-> sd[l],
                  audience |-> { s.idx : s \in SubsOf(l.cycle) } ])
         /\ subscriptions' =
                [ s \in DOMAIN subscriptions |->
                    IF SameBus(s, l)
                    THEN Throttle(subscriptions[s], Len(pushLog) + 1)
                    ELSE subscriptions[s] ]
         /\ superseded' = superseded \cup
                ({ subscriptions[s] : s \in SubsOf(l.cycle) } \ {0})
         /\ UNCHANGED noBroadcasting

\* The user changes the selection of store l.param in a view, making a
\* selection or clearing one (the view of a superseded cycle keeps its
\* listeners, and it is the one on screen when its embed resolved last); the renderer updates the store
\* and fires the signal.  Gestures are taken while their number fits the
\* bound.
UserSelect(l, d) ==
    /\ phase = "idle"
    /\ l \in DOMAIN storeData
    /\ (d = "sel") # (storeData[l] = "sel")
    /\ gestures < MaxSelects
    /\ gestures' = gestures + 1
    /\ storeData' = [storeData EXCEPT ![l] = d]
    /\ SignalListener(l, storeData', TRUE)
    /\ UNCHANGED << rendererVars, propVars, vegaRefs, cycles, embedVars,
                    microtasks, readyVars, pendingSignals,
                    stateWrites, clickVars >>

\* The signal re-triggered by a setState of a subscribe callback.
SignalEcho(l) ==
    /\ phase = "idle"
    /\ l \in DOMAIN pendingSignals
    /\ pendingSignals[l] > 0
    /\ pendingSignals' = [pendingSignals EXCEPT ![l] = @ - 1]
    /\ SignalListener(l, storeData, FALSE)
    /\ UNCHANGED << rendererVars, propVars, vegaRefs, cycles, embedVars,
                    microtasks, readyVars, storeData, stateWrites, gestures,
                    clickVars >>

\* The throttle timer of subscription s ends while it holds a value
\* (trailing: true): the value is handed to the subscribe callback.
TimerFire(s) ==
    /\ phase = "idle"
    /\ s \in DOMAIN subscriptions
    /\ subscriptions[s] # 0
    /\ LET id     == subscriptions[s]
           entry  == pushLog[id]
           target == Loop(s.cycle, s.idx, entry.signal)
       IN  /\ subscriptions' = [subscriptions EXCEPT ![s] = 0]
           /\ IF Applies(entry, s)
              THEN /\ noBroadcasting' = noBroadcasting \cup {s}
                   /\ storeData' = [storeData EXCEPT ![target] = entry.data]
                   /\ pendingSignals' =
                          [pendingSignals EXCEPT ![target] = @ + 1]
                   /\ stateWrites' = stateWrites \cup
                          { [ id    |-> id,
                              cycle |-> s.cycle,
                              idx   |-> s.idx,
                              param |-> s.param ] }
              ELSE UNCHANGED << noBroadcasting, storeData, pendingSignals,
                                stateWrites >>
    /\ UNCHANGED << rendererVars, propVars, vegaRefs, cycles, embedVars,
                    microtasks, readyVars, pushLog, superseded,
                    signalCalls, gestures, clickVars >>

\* -------------------------------------------------------- click passthrough
\* What the SELECTION_NAME signal gives on a click: no change of the
\* selection (the listener is not called), the empty selection {}, or a
\* selection of a point.
Selections == { "none", "empty", "point" }

\* A filter that lets every selection pass.
AnyKeys(values) == TRUE

\* Object.keys(values).length > 0
HasKeys(values) == values # "empty"

\* selection$.pipe(op.withLatestFrom(click$), op.filter(...)) for a value of
\* selection$, the subscription holding click latest: the pairs emitted.
geomClick(values, latest) ==
    IF latest # 0 /\ HasKeys(values)
    THEN { [values |-> values, e |-> latest] }
    ELSE {}

\* The user clicks in a view of the current grid.  The renderer calls the
\* click listener during the event (click$.next(e)) and then, after its
\* dataflow run, the SELECTION_NAME listener if the click changed the
\* selection (selection$.next(values)); the geomClick$ subscription calls
\* onGeomClick for each pair it emits.
Click(v, values) ==
    /\ phase = "idle"
    /\ v \in geomListeners
    /\ v.cycle = cur
    /\ clicks < MaxClicks
    /\ clicks' = clicks + 1
    /\ latestClick' = clicks + 1
    /\ IF values = "none"
       THEN UNCHANGED << selectionLog, geomClicks >>
       ELSE /\ selectionLog' = selectionLog \cup
                   { [values |-> values, click |-> clicks + 1] }
            /\ geomClicks' = geomClicks \cup geomClick(values, latestClick')
    /\ UNCHANGED << rendererVars, propVars, vegaRefs, cycles, embedVars, microtasks,
                    readyVars, subscriptions, busVars >>

\* The onGeomClick prop changes: the effect unsubscribes from geomClick$
\* and subscribes again; the new subscription has seen no click yet.
Resubscribe ==
    /\ phase = "idle"
    /\ latestClick # 0
    /\ latestClick' = 0
    /\ UNCHANGED << rendererVars, propVars, vegaRefs, cycles, embedVars, microtasks,
                    readyVars, subscriptions, busVars, clicks, selectionLog,
                    geomClicks >>

\* ------------------------------------------------------------------ facade
\* The last value emitted on ready$ is true and came from the current cycle.
AlreadyReady ==
    /\ readyLog # <<>>
    /\ readyLog[Len(readyLog)].value
    /\ readyLog[Len(readyLog)].cycle = cur

\* ready(): firstValueFrom(ready$.pipe(startWith(false), first(s => s)));
\* the subject replays nothing, so the promise waits for the next true.
ready ==
    /\ phase = "idle"
    /\ readyWaiters' = readyWaiters \cup
           { [calledWhenReady |-> AlreadyReady] }
    /\ UNCHANGED << rendererVars, propVars, vegaRefs, cycles, embedVars,
                    microtasks, readyLog, subscriptions, busVars, clickVars >>

\* setUnready(): ready$.current.next(false)
setUnready ==
    /\ phase = "idle"
    /\ readyLog' = << ReadyEntry(FALSE, 0, cycles, pendingEmbeds, embedDone,
                                 rowRepeatFields, colRepeatFields) >>
    /\ UNCHANGED << rendererVars, propVars, vegaRefs, cycles, embedVars,
                    microtasks, readyWaiters, subscriptions, busVars,
                    clickVars >>

\* view.toSVG(): the markup of one view.
toSVG(view) == [svgOf |-> view]

\* getSVGData(): Promise.all(vegaRefs.current.map(view => view.toSVG()))
getSVGData == [ p \in DOMAIN vegaRefs |-> toSVG(vegaRefs[p]) ]

\* ---------------------------------------------------------------- Renderer
\* The versions for which the data effect has started a pipeline.
IssuedQueries == queries \cup { q.version : q \in settledQueries }

\* The body of the Renderer's data effect for the store values of version:
\* targetRef.current?.setUnready?.(), setWaiting(true), and the pipeline
\* applyFilter -> transformDataService -> applyViewQuery is started.
DataEffectBody(version) ==
    /\ readyLog' = << ReadyEntry(FALSE, 0, cycles, pendingEmbeds, embedDone,
                                 rowRepeatFields, colRepeatFields) >>
    /\ waiting' = TRUE
    /\ queries' = queries \cup {version}
    /\ UNCHANGED << propVars, vegaRefs, cycles, embedVars, microtasks,
                    readyWaiters, subscriptions, busVars, clickVars,
                    settledQueries, viewData, encodings, viewConfig >>

\* The first run of the data effect, in the commit that mounts the view
\* (the effects of a child run before those of its parent).
MountDataEffect ==
    /\ phase = "rerender"
    /\ 0 \notin IssuedQueries
    /\ DataEffectBody(0)
    /\ UNCHANGED store

\* A dependency of the data effect changes in the store and the effect
\* runs again; the pipelines in flight are left running.
DataEffect ==
    /\ phase = "idle"
    /\ 0 \in IssuedQueries
    /\ store < MaxChanges
    /\ store' = store + 1
    /\ DataEffectBody(store + 1)

\* The re-render of the mount, after the effects of its commit.
RendererRerender ==
    /\ 0 \in IssuedQueries
    /\ Rerender

\* The view re-renders with viewData as its dataSource prop: the embed
\* effect runs again with unchanged rows and columns.
SpecRendererRender == Render(rows, columns, FALSE, FALSE)

\* The pipeline started with version q is fulfilled: the batched updates
\* setViewData(data), setWaiting(false), setEncodings(store value now),
\* setViewConfig(store value now); there is no test that q is the latest.
QueryDone(q) ==
    /\ phase = "idle"
    /\ q \in queries
    /\ queries' = queries \ {q}
    /\ settledQueries' = settledQueries \cup { [version |-> q, ok |-> TRUE] }
    /\ viewData' = q
    /\ waiting' = FALSE
    /\ encodings' = store
    /\ viewConfig' = store
    /\ SpecRendererRender
    /\ UNCHANGED << changes, paramStores, store >>

\* A catch that leaves the waiting flag as it is.
WaitingKept(w) == w

\* .catch((err) => { console.error(err); setWaiting(false); })
WaitingAfterCatch(w) == FALSE

\* The pipeline started with version q is rejected.
QueryFail(q) ==
    /\ phase = "idle"
    /\ q \in queries
    /\ queries' = queries \ {q}
    /\ settledQueries' = settledQueries \cup { [version |-> q, ok |-> FALSE] }
    /\ waiting' = WaitingAfterCatch(waiting)
    /\ UNCHANGED << propVars, vegaRefs, cycles, embedVars, microtasks,
                    readyVars, subscriptions, busVars, clickVars, store,
                    viewData, encodings, viewConfig >>

\* ------------------------------------------------------------ specification
InitWith(stores) ==
    /\ phase = "unmounted"
    /\ changes = 0
    /\ rows = <<>>
    /\ columns = <<>>
    /\ rowRepeatFields = <<>>
    /\ colRepeatFields = <<>>
    /\ viewPlaceholders = 0
    /\ paramStores = stores
    /\ vegaRefs = <<>>
    /\ cycles = <<>>
    /\ pendingEmbeds = {}
    /\ embedDone = {}
    /\ embedRejected = {}
    /\ geomListeners = {}
    /\ microtasks = <<>>
    /\ readyLog = <<>>
    /\ readyWaiters = {}
    /\ subscriptions = << >>
    /\ noBroadcasting = {}
    /\ storeData = << >>
    /\ pendingSignals = << >>
    /\ pushLog = << >>
    /\ superseded = {}
    /\ stateWrites = {}
    /\ signalCalls = {}
    /\ gestures = 0
    /\ clicks = 0
    /\ latestClick = 0
    /\ selectionLog = {}
    /\ geomClicks = {}
    /\ store = 0
    /\ queries = {}
    /\ settledQueries = {}
    /\ waiting = FALSE
    /\ viewData = -1
    /\ encodings = -1
    /\ viewConfig = -1

Next ==
    \/ \E r \in Axes, c \in Axes : Mount(r, c)
    \/ Rerender
    \/ \E r \in Axes : ChangeRows(r)
    \/ \E c \in Axes : ChangeColumns(c)
    \/ \E r \in Axes, c \in Axes : ChangeRowsAndColumns(r, c)
    \/ ChangeOther
    \/ \E v \in pendingEmbeds : ResolveEmbed(v)
    \/ ready
    \/ setUnready

\* The grid planner, the embed cycles and the facade, for views that expose
\* no selection store.
Init == InitWith({})

Spec == Init /\ [][Next]_vars

\* The interaction bus of the views of a mounted grid, a single view or two
\* sibling views side by side, while the embeds resolve and the user makes
\* selections.
BusRows == { <<"d1", "d2">> }
BusColumns == { <<"d1", "d2">>, <<"d1", "m1", "m2">> }

InitBus == \E stores \in ParamStoreChoices : InitWith(stores)

NextBus ==
    \/ \E r \in BusRows, c \in BusColumns : Mount(r, c)
    \/ Rerender
    \/ \E v \in pendingEmbeds : ResolveEmbed(v)
    \/ \E l \in DOMAIN storeData, d \in Data : UserSelect(l, d)
    \/ \E l \in DOMAIN pendingSignals : SignalEcho(l)
    \/ \E s \in DOMAIN subscriptions : TimerFire(s)

SpecBus == InitBus /\ [][NextBus]_vars

\* The interaction bus after one selection gesture and no further input.
Gesture(l) ==
    /\ gestures = 0
    /\ UserSelect(l, "sel")

NextGesture ==
    \/ \E r \in BusRows, c \in BusColumns : Mount(r, c)
    \/ Rerender
    \/ \E v \in pendingEmbeds : ResolveEmbed(v)
    \/ \E l \in DOMAIN storeData : Gesture(l)
    \/ \E l \in DOMAIN pendingSignals : SignalEcho(l)
    \/ \E s \in DOMAIN subscriptions : TimerFire(s)

SpecGesture == InitBus /\ [][NextGesture]_vars

\* The bus subscriptions across embed cycles: a grid of two sibling views
\* exposing a selection store, re-embedded when a dependency of the effect
\* changes while embeds are in flight.
CycleColumns == { <<"d1", "m1", "m2">> }

InitCycles == \E stores \in ParamStoreChoices \ {{}} : InitWith(stores)

NextCycles ==
    \/ \E r \in BusRows, c \in CycleColumns : Mount(r, c)
    \/ Rerender
    \/ ChangeOther
    \/ \E v \in pendingEmbeds : ResolveEmbed(v)

SpecCycles == InitCycles /\ [][NextCycles]_vars

\* Failing embeds: the embed of a cell is rejected, or attaching the
\* listeners of an embedded view throws.
NextFail ==
    \/ \E r \in BusRows, c \in BusColumns : Mount(r, c)
    \/ Rerender
    \/ \E v \in pendingEmbeds : ResolveEmbed(v)
    \/ \E v \in pendingEmbeds, attached \in SUBSET paramStores,
          listening \in BOOLEAN : ResolveEmbedThrowing(v, attached, listening)
    \/ \E v \in pendingEmbeds : RejectEmbed(v)

SpecFail == InitBus /\ [][NextFail]_vars

\* Clicks in the views of a mounted grid.
NextClick ==
    \/ \E r \in BusRows, c \in BusColumns : Mount(r, c)
    \/ Rerender
    \/ \E v \in pendingEmbeds : ResolveEmbed(v)
    \/ \E v \in pendingEmbeds : ResolveEmbedThrowing(v, {}, FALSE)
    \/ \E v \in geomListeners, values \in Selections : Click(v, values)
    \/ Resubscribe

SpecClick == Init /\ [][NextClick]_vars

\* The Renderer around a mounted view: its data effect, the outcomes of the
\* query pipelines in any order, and the embeds they cause.
NextRenderer ==
    \/ \E r \in BusRows, c \in BusColumns : Mount(r, c)
    \/ MountDataEffect
    \/ RendererRerender
    \/ DataEffect
    \/ \E q \in queries : QueryDone(q)
    \/ \E q \in queries : QueryFail(q)
    \/ \E v \in pendingEmbeds : ResolveEmbed(v)

SpecRenderer == Init /\ [][NextRenderer]_vars

\* The buses of successive embed cycles: a grid of two sibling views with
\* a brush store, re-embedded while embeds are in flight, and one selection
\* in a view of any cycle.
NextOwnBus ==
    \/ \E r \in BusRows, c \in CycleColumns : Mount(r, c)
    \/ Rerender
    \/ ChangeOther
    \/ \E v \in pendingEmbeds : ResolveEmbed(v)
    \/ \E l \in DOMAIN storeData : Gesture(l)
    \/ \E l \in DOMAIN pendingSignals : SignalEcho(l)
    \/ \E s \in DOMAIN subscriptions : TimerFire(s)

SpecOwnBus == InitWith({BRUSH_SIGNAL_NAME}) /\ [][NextOwnBus]_vars

\* ------------------------------------------------------------------ claims
Card(S) == Cardinality(S)

ReadyTrue(p) == readyLog[p].value /\ readyLog[p].cycle > 0

\* C1: in a multi-view cycle the aggregate ready event of that cycle is
\* emitted only after every embed issued in that cycle has resolved: at the
\* emission no embed of the emitting cycle is still in flight.
C1_ReadyAfterAllEmbeds ==
    \A p \in DOMAIN readyLog :
        (ReadyTrue(p) /\ cycles[readyLog[p].cycle].multi)
            => readyLog[p].ownPending = 0

\* A multi-view cycle with at least two embeds has emitted ready.
C1_Witness ==
    \E p \in DOMAIN readyLog :
        /\ ReadyTrue(p)
        /\ cycles[readyLog[p].cycle].multi
        /\ Card(cycles[readyLog[p].cycle].issued) >= 2
        /\ \A k \in cycles[readyLog[p].cycle].issued :
               View(readyLog[p].cycle, k) \in embedDone

\* C2: no ready (true) event caused by the completion of an embed is emitted
\* while a view of the current grid plan has not completed its embed; in
\* particular not by the late completion of an embed of a superseded cycle.
C2_NoReadyWhileCurrentPending ==
    \A p \in DOMAIN readyLog :
        (ReadyTrue(p) /\ cycles[readyLog[p].cycle].issued # {})
            => readyLog[p].planDone

\* C3: once the current cycle is ready the export list has as many entries
\* as the grid has cells, max(1, rowCount x colCount); before any view has
\* completed its embed it is empty.
C3_ExportLengthIsCellCount ==
    phase = "idle" =>
        /\ AlreadyReady =>
               Len(getSVGData) = ViewNum(rowRepeatFields, colRepeatFields)
        /\ embedDone = {} => Len(getSVGData) = 0

\* C4: once the current cycle is ready the export list holds the view of
\* cell i*colCount + j at position i*colCount + j, whatever the order in
\* which the embeds resolved.
C4_ExportOrderedByCell ==
    (phase = "idle" /\ AlreadyReady) =>
        \A p \in DOMAIN getSVGData : getSVGData[p].svgOf.idx = p - 1

\* C5: a ready() call made after the ready event of the current cycle, with
\* no setUnready and no new cycle since, resolves immediately: it is never
\* left waiting.
C5_ReadyResolvesImmediately ==
    \A w \in readyWaiters : ~w.calledWhenReady

\* C6: with no field on one axis and M >= 2 measures on the other, the grid
\* has M cells (one row or one column) and the cycle embeds exactly M views.
C6_EmptyAxisIsOneView ==
    phase = "idle" =>
        /\ (rows = <<>> /\ Len(Meas(columns)) >= 2) =>
               /\ rowSize = 1
               /\ Card(cycles[cur].issued) = Len(Meas(columns))
        /\ (columns = <<>> /\ Len(Meas(rows)) >= 2) =>
               /\ colSize = 1
               /\ Card(cycles[cur].issued) = Len(Meas(rows))

\* C7: after any sequence of changes of rows and columns the grid plan in
\* use (repeat fields and number of placeholders) is the plan derived from
\* the current rows and the current columns.
C7_PlanFollowsAssignments ==
    phase = "idle" =>
        /\ rowRepeatFields = RepeatFields(rows)
        /\ colRepeatFields = RepeatFields(columns)
        /\ viewPlaceholders = ViewNum(RepeatFields(rows), RepeatFields(columns))

\* C8: with no measure on either axis the grid plan is 1 x 1 and the cycle
\* issues exactly one embed.
C8_NoMeasuresIsSingleView ==
    (phase = "idle" /\ Len(Meas(rows)) = 0 /\ Len(Meas(columns)) = 0) =>
        /\ rowSize = 1
        /\ colSize = 1
        /\ Card(cycles[cur].issued) = 1

\* The subscriptions of the cycle of entry id have all flushed it, none of
\* them was cancelled and none had it replaced by a later entry.
Flushed(id) ==
    /\ pushLog[id].cycle = cur
    /\ id \notin superseded
    /\ \A s \in DOMAIN subscriptions : subscriptions[s] # id

WritesInto(id, k) == { w \in stateWrites : w.id = id /\ w.idx = k }

\* C9: a view never applies a bus entry whose source is the view itself: no
\* setState is made on the view an entry originates in.
C9_NoWriteIntoSource ==
    \A w \in stateWrites : pushLog[w.id].source # w.idx

\* An entry was flushed to the subscriptions of its own source view and of a
\* sibling, and the sibling applied it.
C9_Witness ==
    \E id \in DOMAIN pushLog :
        /\ Flushed(id)
        /\ pushLog[id].source \in pushLog[id].audience
        /\ \E w \in stateWrites : w.id = id

\* C10: a broadcast of a non-empty selection from view k causes exactly one
\* state write into each of the other sibling views, also when the views
\* expose both the brush and the point store.
C10_ExactlyOneWritePerSibling ==
    \A id \in DOMAIN pushLog :
        (Flushed(id) /\ pushLog[id].data = "sel") =>
            \A k \in pushLog[id].audience \ {pushLog[id].source} :
                Card(WritesInto(id, k)) = 1

\* C11: the noBroadcasting flag of a view swallows exactly the one signal
\* emission re-triggered by the setState that set it: a set flag always has
\* its echo still to come, no user emission is ever swallowed, and no echo
\* is ever pushed on the bus.
C11_FlagSwallowsExactlyTheEcho ==
    /\ \A l \in noBroadcasting : pendingSignals[l] > 0
    /\ \A c \in signalCalls : c.genuine => ~c.swallowed
    /\ \A c \in signalCalls : ~c.genuine => c.swallowed

\* A view that has broadcast holds an echo its flag will not swallow.
Rebroadcasts(l) ==
    /\ pendingSignals[l] > 0
    /\ l \notin noBroadcasting
    /\ \E id \in DOMAIN pushLog : pushLog[id].source = l.idx

\* C12: after a single selection gesture and no further input the bus
\* becomes idle, the broadcasts and state writes it causes are finite: the
\* selection never comes back to be broadcast again by a view that has
\* already broadcast it.
C12_NoRetransmission ==
    \A l \in DOMAIN pendingSignals : ~Rebroadcasts(l)

\* C13: a view that receives an entry whose payload is absent or the empty
\* list ignores it: it makes no state write (and so sets no flag).
C13_EmptyPayloadIgnored ==
    \A w \in stateWrites : pushLog[w.id].data = "sel"

\* The latest entry pushed on the bus of cycle c (0: none).
LatestPush(c) ==
    LET ids == { id \in DOMAIN pushLog : pushLog[id].cycle = c }
    IN  IF ids = {} THEN 0
        ELSE CHOOSE id \in ids : \A other \in ids : other <= id

\* C14: the throttled bus hands a subscriber one entry per throttle window,
\* the most recent one pushed in it, and none at the moment of a push: a
\* step that pushes an entry makes no state write, and a step in which a
\* subscription hands over its held entry hands over the latest push.
C14_TrailingLatestOnly ==
    [][ /\ (pushLog' # pushLog) =>
               /\ stateWrites' = stateWrites
               /\ noBroadcasting' \subseteq noBroadcasting
        /\ \A s \in DOMAIN subscriptions \cap DOMAIN subscriptions' :
               (subscriptions[s] # 0 /\ subscriptions'[s] = 0) =>
                   subscriptions[s] = LatestPush(s.cycle) ]_vars

\* An entry was replaced in a throttle window and the later entry that
\* replaced it was handed to a sibling, which applied it.
C14_Witness ==
    \E w \in stateWrites : \E id \in superseded :
        /\ id < w.id
        /\ pushLog[id].cycle = pushLog[w.id].cycle

\* C15: when a new embed cycle starts, every bus subscription of the
\* superseded cycle is cancelled, also those of views whose embed resolves
\* after the change: no subscription of a superseded cycle is active.
C15_NoStaleSubscription ==
    phase = "idle" => \A s \in DOMAIN subscriptions : s.cycle = cur

\* C16: the result of an embed of a superseded cycle that completes after a
\* new cycle has started is discarded: the handle list holds views of the
\* current cycle only, and no more of them than the grid has cells.
C16_StaleEmbedDiscarded ==
    phase = "idle" =>
        /\ \A p \in DOMAIN vegaRefs : vegaRefs[p].cycle = cur
        /\ Len(vegaRefs) <= ViewNum(rowRepeatFields, colRepeatFields)

\* C17: every run of the embed effect, whatever dependency caused it, emits
\* unready (false) on ready$ before it issues an embed: when a run issues
\* embeds, the latest value emitted on ready$ is false.
C17_UnreadyBeforeEmbeds ==
    [][ ( /\ Len(cycles') > Len(cycles)
          /\ cycles'[Len(cycles')].issued # {} )
        => ( /\ readyLog' # <<>>
             /\ ~readyLog'[Len(readyLog')].value ) ]_vars

InVegaRefs(v) == \E p \in DOMAIN vegaRefs : vegaRefs[p] = v

LoopsOf(v) == { l \in DOMAIN storeData : l.cycle = v.cycle /\ l.idx = v.idx }

\* C18: a cell whose embed is rejected records no handle and attaches no
\* listener, its siblings that complete record their handles, and the
\* ready event of its cycle is never emitted.
C18_RejectedCellNeverReady ==
    \A v \in embedRejected :
        /\ ~InVegaRefs(v)
        /\ v \notin geomListeners
        /\ LoopsOf(v) = {}
        /\ \A w \in embedDone :
               (w.cycle = v.cycle /\ v.cycle = cur /\ phase = "idle")
                   => InVegaRefs(w)
        /\ \A p \in DOMAIN readyLog :
               ~(readyLog[p].value /\ readyLog[p].cycle = v.cycle)

\* In the current grid of two cells one embed was rejected and the sibling
\* completed and recorded its handle.
C18_Witness ==
    \E v \in embedRejected : \E w \in embedDone :
        /\ v.cycle = cur
        /\ w.cycle = cur
        /\ cycles[cur].multi
        /\ InVegaRefs(w)
        /\ \A u \in pendingEmbeds : u.cycle # cur

\* Attaching the listeners of view v threw: an iteration of its paramStores
\* loop or its click and SELECTION_NAME listeners are missing.
Threw(v) ==
    /\ v \in embedDone
    /\ \/ v \notin geomListeners
       \/ /\ cycles[v.cycle].multi
          /\ \E p \in paramStores :
                 Loop(v.cycle, v.idx, p) \notin DOMAIN storeData

\* C19: when attaching the listeners throws after a successful embed, the
\* cell is settled all the same and its handle is recorded for export.
C19_ThrowingAttachKeepsHandle ==
    phase = "idle" =>
        \A v \in embedDone : (Threw(v) /\ v.cycle = cur) => InVegaRefs(v)

\* C20: onGeomClick is called exactly when a click gives a non-empty point
\* selection: never with an empty selection, never before a click, always
\* with the click that caused the selection, and for every such selection.
C20_GeomClickOnSelectingClick ==
    /\ \A g \in geomClicks :
           /\ g.values = "point"
           /\ g.e # 0
           /\ [values |-> g.values, click |-> g.e] \in selectionLog
    /\ \A sel \in selectionLog :
           sel.values = "point" =>
               [values |-> sel.values, e |-> sel.click] \in geomClicks

\* onGeomClick was called for the second click, after a first click that
\* left the selection empty.
C20_Witness ==
    /\ [values |-> "point", e |-> 2] \in geomClicks
    /\ [values |-> "empty", click |-> 1] \in selectionLog

\* C21: when the query pipeline fails, the view data, the encodings and the
\* visual configuration handed to the view keep their prior values and the
\* waiting flag is reset to false.
C21_FailureKeepsPriorView ==
    [][ (\E q \in settledQueries' \ settledQueries : ~q.ok) =>
            /\ viewData' = viewData
            /\ encodings' = encodings
            /\ viewConfig' = viewConfig
            /\ waiting' = FALSE ]_vars

\* A pipeline failed after an earlier one had delivered its data.
C21_Witness ==
    /\ \E q \in settledQueries : ~q.ok
    /\ viewData # -1
    /\ ~waiting

\* C22: in every multi-view grid exactly one cell is built with hideLegend
\* false, the cell of the top row and the rightmost column.
C22_OneLegendTopRight ==
    (phase = "idle" /\ IsMultiView(rowRepeatFields, colRepeatFields)) =>
        { c \in LoopCells(rowRepeatFields, colRepeatFields) :
              ~hideLegend(c[1], c[2], colRepeatFields) }
            = { << 0, colSize - 1 >> }

\* Nothing is in flight: no pipeline, no embed, no queued continuation.
Quiescent ==
    /\ phase = "idle"
    /\ 0 \in IssuedQueries
    /\ queries = {}
    /\ pendingEmbeds = {}
    /\ microtasks = <<>>

\* C23: every setUnready of the Renderer is followed by a ready event, also
\* when the pipeline fails: once nothing is in flight any more, the latest
\* value emitted on ready$ is not false.
C23_UnreadyFollowedByReady ==
    Quiescent => (readyLog # <<>> /\ readyLog[Len(readyLog)].value)

\* C24: when the pipelines of two changes complete in either order, what
\* is displayed in the end is the result of the latest change: once no
\* pipeline is in flight and the latest one has delivered, the view data,
\* the encodings and the configuration are those of the latest change.
C24_LatestQueryWins ==
    (queries = {} /\ [version |-> store, ok |-> TRUE] \in settledQueries) =>
        /\ viewData = store
        /\ encodings = store
        /\ viewConfig = store

\* C25: each embed cycle has its own bus: an entry pushed by a view of one
\* cycle is held and handed over by subscriptions of that cycle only, and
\* causes state writes into views of that cycle only.
C25_BusPerCycle ==
    /\ \A w \in stateWrites : pushLog[w.id].cycle = w.cycle
    /\ \A s \in DOMAIN subscriptions :
           subscriptions[s] # 0 => pushLog[subscriptions[s]].cycle = s.cycle

\* A subscription made by a late embed of a superseded cycle has applied a
\* selection of a view of that cycle, while the current cycle has
\* subscriptions of its own.
C25_Witness ==
    /\ \E w \in stateWrites :
           /\ w.cycle < cur
           /\ Loop(w.cycle, w.idx, w.param) \in DOMAIN subscriptions
    /\ \E s \in DOMAIN subscriptions : s.cycle = cur

====
